---- MODULE Spec2Model ----
(***************************************************************************)
(* Model of the stablecoin-pay backend: the ledger store (wallets,         *)
(* transactions, webhook_events), the Sync task (sync_all_wallets,         *)
(* sync_wallet, notify_payment_received, deliver_webhook,                  *)
(* retry_pending_webhooks) and the HTTP handlers that touch the same       *)
(* tables (create_wallet, get_transactions, test_webhook).                 *)
(* Every database call, RPC call, HTTP send and sleep is one step, since   *)
(* each is an await point at which other tasks run and the process may     *)
(* stop.                                                                   *)
(***************************************************************************)
EXTENDS Bags, FiniteSets, Integers, Sequences, TLC

\* ---------------------------------------------------------------- bounds
\* External events: HTTP requests, admin deletions and process restarts.
MaxOps == 2

\* ------------------------------------------------------- program constants
MaxNow == 8
MaxRates == 2
MaxLen == 3
AmountBits == 3

MAX_ATTEMPTS == 3
RETRY_DELAYS == <<1, 5, 30>>
SYNC_LIMIT == 20
PENDING_LIMIT == 100

\* ------------------------------------------------------------ value domains
Null == "null"
\* Addresses that get registered; AllAddrs are the owners seen on chain.
Addrs == {"A"}
AllAddrs == {"A", "B"}
Urls == {Null, "", "https://x"}

\* The chain: signatures in the order in which they are confirmed.
\* sigS: one transfer from A to B (A sends, B receives); sigR: A receives
\* from an unwatched address.
SigOrder == <<"sigS", "sigR">>
Sigs == {SigOrder[i] : i \in DOMAIN SigOrder}

ERR_MAX == "Max retry attempts exceeded"
ERR_URL == "Wallet webhook URL no longer configured"
ERR_SEND == "HTTP 500"

VARIABLES
    wallets,        \* table wallets, in created_at order
    transactions,   \* table transactions, a bag of rows
    webhook_events, \* table webhook_events, in created_at order
    chainLen,       \* number of signatures of SigOrder confirmed on chain
    sync,           \* the Sync task: position and locals
    test,           \* a test_webhook request in progress
    gt,             \* a get_transactions request in progress
    sent,           \* history: HTTP sends made, per event id
    httpLog,        \* history: signatures of payment.received bodies sent
    notifyRet,      \* history: last return value of notify_payment_received, per signature
    ingested,       \* history: signatures for which a TransactionRepository::create call returned
    synced,         \* history: <<wallet, signature>> pairs that a sync_wallet call is done with
    ops,            \* external events so far (requests, deletions, restarts)
    apy_rates,      \* table apy_rates, a set of rows
    apy,            \* the APY task: position and locals
    now,            \* the clock, in days
    fn              \* the last store or adapter function applied, with its input and output

vars == <<wallets, transactions, webhook_events, chainLen, sync, test, gt,
          sent, httpLog, notifyRet, ingested, synced, ops, apy_rates, apy, now, fn>>

db == <<wallets, transactions, webhook_events>>
hist == <<sent, httpLog, notifyRet, ingested, synced>>
\* The ledger, its tasks and handlers; the APY side and the function record.
ledger == <<db, chainLen, sync, test, gt, hist>>
side == <<apy_rates, apy, now, fn>>

\* ------------------------------------------------------------ RPC adapter
\* get_transaction_details: classify the watched wallet's balance delta.
TxTypeFor(sig, addr) ==
    CASE sig = "sigS" /\ addr = "A" -> "send"
      [] sig = "sigS" /\ addr = "B" -> "receive"
      [] sig = "sigR" /\ addr = "A" -> "receive"
      [] OTHER -> "none"

\* result.block_time of the confirmed transaction: the position of the
\* signature on chain.
BlockTime(sig) == CHOOSE i \in DOMAIN SigOrder : SigOrder[i] = sig

Parsed(sig, addr) ==
    [signature |-> sig, wallet_address |-> addr, tx_type |-> TxTypeFor(sig, addr),
     block_time |-> BlockTime(sig)]

RECURSIVE NewestFirst(_, _)
\* get_signatures followed by get_transaction_details per signature:
\* newest first, keeping the ones that decode to a transfer.
NewestFirst(n, addr) ==
    IF n = 0 THEN <<>>
    ELSE LET rest == NewestFirst(n - 1, addr)
         IN IF TxTypeFor(SigOrder[n], addr) = "none" THEN rest
            ELSE <<Parsed(SigOrder[n], addr)>> \o rest

RECURSIVE SubSeqs(_)
SubSeqs(s) ==
    IF s = <<>> THEN {<<>>}
    ELSE LET r == SubSeqs(Tail(s))
         IN r \cup {<<Head(s)>> \o t : t \in r}

\* sync_wallet_transactions: a per-signature fetch error skips that
\* signature; a list-level error is the result "err".
RpcResults(addr) ==
    {[ok |-> TRUE, txs |-> t] :
        t \in SubSeqs(NewestFirst(IF chainLen < SYNC_LIMIT THEN chainLen ELSE SYNC_LIMIT, addr))}
        \cup {[ok |-> FALSE, txs |-> <<>>]}

\* ----------------------------------------------------------- ledger store
\* WalletRepository
WalletIndex(ws, addr) == {i \in DOMAIN ws : ws[i].address = addr}

\* fetch_optional: the empty set is None, a singleton is Some(wallet).
FindByAddress(ws, addr) == {ws[i] : i \in WalletIndex(ws, addr)}

CoalesceNew(new, old) == new

\* COALESCE($2, wallets.webhook_url)
Coalesce(new, old) == IF new # Null THEN new ELSE old

WalletCreate(ws, addr, url) ==
    IF WalletIndex(ws, addr) = {}
    THEN Append(ws, [address |-> addr, webhook_url |-> url])
    ELSE [i \in DOMAIN ws |->
            IF ws[i].address = addr
            THEN [ws[i] EXCEPT !.webhook_url = Coalesce(url, @)]
            ELSE ws[i]]

RECURSIVE Reverse(_)
Reverse(s) == IF s = <<>> THEN <<>> ELSE Append(Reverse(Tail(s)), Head(s))

ListAll(ws) == Reverse(ws)

RECURSIVE WalletDelete(_, _)
WalletDelete(ws, addr) ==
    IF ws = <<>> THEN <<>>
    ELSE IF Head(ws).address = addr THEN WalletDelete(Tail(ws), addr)
    ELSE <<Head(ws)>> \o WalletDelete(Tail(ws), addr)

\* TransactionRepository
TransactionExistsNever(txs, sig) == FALSE

TransactionExists(txs, sig) ==
    \E r \in BagToSet(txs) : r.signature = sig

TxRow(p) ==
    [signature |-> p.signature, wallet_address |-> p.wallet_address,
     tx_type |-> p.tx_type, block_time |-> p.block_time]

TransactionCreateNoConflict(txs, p) ==
    [table |-> txs (+) SetToBag({TxRow(p)}), result |-> "ok"]

TransactionCreateOverwrite(txs, p) ==
    LET kept == {r \in BagToSet(txs) : r.signature # p.signature}
    IN [table |-> SetToBag(kept) (+) SetToBag({TxRow(p)}), result |-> "ok"]

\* INSERT ... ON CONFLICT (signature) DO NOTHING RETURNING *, fetch_one:
\* on conflict no row comes back and the result is RowNotFound.
TransactionCreate(txs, p) ==
    IF \E r \in BagToSet(txs) : r.signature = p.signature
    THEN [table |-> txs, result |-> "RowNotFound"]
    ELSE [table |-> txs (+) SetToBag({TxRow(p)}), result |-> "ok"]

\* TransactionRepository::create as its caller sees it: the outcome of the
\* statement, or a store error that leaves the table as it was.
CreateResults(txs, p) ==
    {TransactionCreate(txs, p), [table |-> txs, result |-> "db_err"]}

\* WebhookEventRepository
NewEvent(evs, addr, sig, etype) ==
    [id |-> Len(evs) + 1, wallet_address |-> addr, transaction_signature |-> sig,
     event_type |-> etype, status |-> "pending", attempts |-> 0, last_error |-> Null]

EventCreate(evs, addr, sig, etype) == Append(evs, NewEvent(evs, addr, sig, etype))

ExistsForTransaction(evs, sig) ==
    \E i \in DOMAIN evs : evs[i].transaction_signature = sig

FindPendingPaymentsOnly(evs, limit) ==
    LET q == SelectSeq(evs, LAMBDA e : e.status = "pending" /\ e.transaction_signature # Null)
    IN [i \in DOMAIN q |->
          [id |-> q[i].id, attempts |-> q[i].attempts,
           wallet_address |-> q[i].wallet_address,
           transaction_signature |-> q[i].transaction_signature]]

RECURSIVE SelectPending(_)
SelectPending(evs) ==
    IF evs = <<>> THEN <<>>
    ELSE IF Head(evs).status = "pending"
         THEN <<Head(evs)>> \o SelectPending(Tail(evs))
         ELSE SelectPending(Tail(evs))

\* SELECT ... WHERE status = 'pending' ORDER BY created_at ASC LIMIT $1.
\* Of each row read, retry_pending_webhooks uses id, attempts,
\* wallet_address and payload (which carries the signature).
FindPending(evs, limit) ==
    LET p == SelectPending(evs)
        q == IF Len(p) <= limit THEN p ELSE SubSeq(p, 1, limit)
    IN [i \in DOMAIN q |->
          [id |-> q[i].id, attempts |-> q[i].attempts,
           wallet_address |-> q[i].wallet_address,
           transaction_signature |-> q[i].transaction_signature]]

MarkDeliveredResetsCount(evs, id) ==
    IF id \in DOMAIN evs
    THEN [evs EXCEPT ![id].status = "delivered", ![id].attempts = 1]
    ELSE evs

MarkDeliveredNoCount(evs, id) ==
    IF id \in DOMAIN evs THEN [evs EXCEPT ![id].status = "delivered"] ELSE evs

MarkDelivered(evs, id) ==
    IF id \in DOMAIN evs
    THEN [evs EXCEPT ![id].status = "delivered", ![id].attempts = @ + 1]
    ELSE evs

MarkFailed(evs, id, error) ==
    IF id \in DOMAIN evs
    THEN [evs EXCEPT ![id].status = "failed", ![id].last_error = error,
                     ![id].attempts = @ + 1]
    ELSE evs

IncrementAttemptSetsPending(evs, id, error) ==
    IF id \in DOMAIN evs
    THEN [evs EXCEPT ![id].attempts = @ + 1, ![id].status = "pending",
                     ![id].last_error = Coalesce(error, @)]
    ELSE evs

IncrementAttemptNoCount(evs, id, error) ==
    IF id \in DOMAIN evs
    THEN [evs EXCEPT ![id].last_error = Coalesce(error, @)]
    ELSE evs

IncrementAttempt(evs, id, error) ==
    IF id \in DOMAIN evs
    THEN [evs EXCEPT ![id].attempts = @ + 1,
                     ![id].last_error = Coalesce(error, @)]
    ELSE evs

\* -------------------------------------------------------------- APY store
RETENTION_DAYS == 7
DEFAULT_LIMIT == 50
MAX_LIMIT == 100

\* Platform names in the order of ORDER BY platform.
PlatformOrder == <<"kamino", "marginfi", "save">>
PlatformRank(p) == CHOOSE i \in DOMAIN PlatformOrder : PlatformOrder[i] = p

\* convert_pool_to_rate: the PoolRate of one DeFiLlama pool.
PoolRate(platform, token, total) ==
    [platform |-> platform, chain |-> "solana", token |-> token, apy_total |-> total]

\* ApyRateRepository::insert: the INSERT binds neither fetched_at nor
\* created_at, the store stamps both (t).
ApyInsert(rates, id, r, t) ==
    rates \cup {[id |-> id, platform |-> r.platform, chain |-> r.chain,
                 token |-> r.token, apy_total |-> r.apy_total,
                 fetched_at |-> t, created_at |-> t]}

FreshestAny(rows, p) == {r \in rows : r.platform = p}

\* The rows DISTINCT ON (platform) ... ORDER BY platform, fetched_at DESC
\* may keep for platform p: a row of p with the greatest fetched_at.
Freshest(rows, p) ==
    {r \in rows : /\ r.platform = p
                  /\ \A q \in rows : q.platform = p => q.fetched_at <= r.fetched_at}

RECURSIVE LatestFrom(_, _)
LatestFrom(rows, i) ==
    IF i > Len(PlatformOrder) THEN {<<>>}
    ELSE LET rest == LatestFrom(rows, i + 1)
             f == Freshest(rows, PlatformOrder[i])
         IN IF f = {} THEN rest ELSE {<<r>> \o t : r \in f, t \in rest}

\* ApyRateRepository::get_latest_rates: every list the query may return,
\* one row per platform, in platform order.
GetLatestRates(rates, chain, token) ==
    LatestFrom({r \in rates : r.chain = chain /\ r.token = token}, 1)

RECURSIVE MaxByApy(_)
\* Iterator::max_by(|a, b| a.apy_total.cmp(&b.apy_total)): of several
\* maximal elements the last one is returned.
MaxByApy(s) ==
    IF Len(s) = 1 THEN s[1]
    ELSE LET m == MaxByApy(SubSeq(s, 1, Len(s) - 1))
             x == s[Len(s)]
         IN IF x.apy_total >= m.apy_total THEN x ELSE m

\* ApyRateRepository::get_best_rate on the list the query returned: the
\* empty set is None, a singleton is Some(rate).
GetBestRate(latest) == IF latest = <<>> THEN {} ELSE {MaxByApy(latest)}

CleanupOldRatesInclusive(rates, before) == {r \in rates : ~(r.created_at <= before)}

\* ApyRateRepository::cleanup_old_rates: DELETE ... WHERE created_at < $1.
CleanupOldRates(rates, before) == {r \in rates : ~(r.created_at < before)}

\* ----------------------------------------------------- handlers, adapters
\* sync_wallet: the match on the result of TransactionRepository::create
\* and the test of the transaction type that follows it.
AfterCreate(result, tx_type) ==
    CASE result = "ok" /\ tx_type = "receive" -> "notify"
      [] result = "ok" -> "continue"
      [] result = "RowNotFound" -> "continue"
      [] OTHER -> "return_err"

RECURSIVE RegisterAll(_, _, _)
\* create_wallet called once per URL of the list, in order.
RegisterAll(ws, addr, urls) ==
    IF urls = <<>> THEN ws
    ELSE RegisterAll(WalletCreate(ws, addr, Head(urls)), addr, Tail(urls))

Min(a, b) == IF a < b THEN a ELSE b

\* Option<i64>, Option<u64>: the empty set is None, {v} is Some(v).
None == {}
Some(v) == {v}
UnwrapOr(o, d) == IF o = None THEN d ELSE CHOOSE v \in o : TRUE

\* get_transactions: limit and offset handed to
\* TransactionRepository::find_by_wallet.
TransactionsPage(limit, offset) ==
    [limit |-> Min(UnwrapOr(limit, DEFAULT_LIMIT), MAX_LIMIT),
     offset |-> UnwrapOr(offset, 0)]

\* get_webhook_events: limit and offset handed to
\* WebhookEventRepository::find_by_wallet.
WebhookEventsPage(limit, offset) ==
    [limit |-> Min(UnwrapOr(limit, DEFAULT_LIMIT), MAX_LIMIT),
     offset |-> UnwrapOr(offset, 0)]

\* u64 and i64, scaled to AmountBits bits.
U64_MAX == 2^AmountBits - 1
I64_MAX == 2^(AmountBits - 1) - 1

\* `amount_raw as i64`: the two's complement reading of the same bits.
AsI64(v) == IF v > I64_MAX THEN v - 2^AmountBits ELSE v

\* get_transaction_details: the match on (our_pre_balance,
\* our_post_balance); the result is Ok(None), or the parsed transfer with
\* the mantissa of Decimal::new(amount_raw as i64, 6).
ClassifyBalances(pre, post) ==
    LET a == UnwrapOr(pre, 0)
        b == UnwrapOr(post, 0)
        m == CASE pre # None /\ post # None /\ b > a -> <<"receive", b - a>>
               [] pre # None /\ post # None /\ a > b -> <<"send", a - b>>
               [] pre = None /\ post # None /\ b > 0 -> <<"receive", b>>
               [] pre # None /\ post = None /\ a > 0 -> <<"send", a>>
               [] OTHER -> <<"none", 0>>
    IN IF m[1] = "none" \/ m[2] = 0 THEN None
       ELSE Some([tx_type |-> m[1], amount |-> AsI64(m[2])])

\* ------------------------------------------------------------------- Init
NoWallet == [address |-> Null, webhook_url |-> Null]

\* SyncReport, as far as sync_all_wallets' error handling goes: the wallets
\* synced and the errors pushed.
NoReport == [wallets_synced |-> 0, errors |-> 0]

\* The SyncService: its shutdown flag, the position of the spawned task and
\* the locals of the calls in progress (ret: what sync_all_wallets
\* returned).
SyncInit ==
    [pc |-> "sleep", wallets |-> <<>>, wallet |-> NoWallet, txs |-> <<>>,
     ev |-> 0, url |-> Null, attempt |-> 0, ok |-> FALSE, pending |-> <<>>,
     shutdown |-> FALSE, report |-> NoReport, ret |-> "none"]

TestInit == [pc |-> "idle", wallet |-> NoWallet, ev |-> 0, ok |-> FALSE, resp |-> "none"]

GtInit == [pc |-> "idle", txs |-> <<>>]

\* The ApyService: its shutdown flag, the position of the spawned task, the
\* fetched rates still to be stored, the number of rows stored so far, and
\* whether the last fetch_solana_usdc_rates call returned an error.
ApyInit ==
    [pc |-> "fetch", initial |-> TRUE, rates |-> <<>>, n |-> 0, shutdown |-> FALSE,
     failed |-> FALSE]

FnInit == [op |-> "none"]

\* The APY side and the function record at rest.
SideInit ==
    /\ apy_rates = {}
    /\ apy = ApyInit
    /\ now = 0
    /\ fn = FnInit

\* The wallets table as earlier registrations may have left it: any
\* sequence of rows with distinct addresses.
WalletTables ==
    {<<>>}
    \cup {<<[address |-> a, webhook_url |-> u]>> : a \in Addrs, u \in Urls}
    \cup {<<[address |-> a, webhook_url |-> u], [address |-> b, webhook_url |-> v]>> :
            a \in Addrs, b \in Addrs, u \in Urls, v \in Urls}

Init ==
    /\ wallets \in {w \in WalletTables :
                      \A i, j \in DOMAIN w : w[i].address = w[j].address => i = j}
    /\ transactions = EmptyBag
    /\ webhook_events = <<>>
    /\ chainLen = 0
    /\ sync = SyncInit
    /\ test = TestInit
    /\ gt = GtInit
    /\ sent = EmptyBag
    /\ httpLog = {}
    /\ notifyRet = [s \in Sigs |-> "none"]
    /\ ingested = {}
    /\ synced = {}
    /\ ops = 0
    /\ SideInit

\* ------------------------------------------------------------ environment
\* A new signature is confirmed on chain.
ChainAdvance ==
    /\ chainLen < Len(SigOrder)
    /\ chainLen' = chainLen + 1
    /\ UNCHANGED <<side, db, sync, test, gt, hist, ops>>

\* The subscriber's answer to one POST: success iff 2xx; the empty URL
\* cannot be posted to.
SendResults(url) == IF url = "" THEN {FALSE} ELSE BOOLEAN

\* The process stops (crash or task abort) and starts again: the tables
\* persist, every task's position and locals are lost.
Restart ==
    /\ ops < MaxOps
    /\ ops' = ops + 1
    /\ sync' = SyncInit
    /\ test' = TestInit
    /\ gt' = GtInit
    /\ UNCHANGED <<side, db, chainLen, hist>>

\* ---------------------------------------------------------- HTTP handlers
\* POST /wallets
CreateWallet(addr, url) ==
    /\ ops < MaxOps
    /\ ops' = ops + 1
    /\ wallets' = WalletCreate(wallets, addr, url)
    /\ UNCHANGED <<side, transactions, webhook_events, chainLen, sync, test, gt, hist>>

\* WalletRepository::delete (admin action)
DeleteWallet(addr) ==
    /\ WalletIndex(wallets, addr) # {}
    /\ ops < MaxOps
    /\ ops' = ops + 1
    /\ wallets' = WalletDelete(wallets, addr)
    /\ UNCHANGED <<side, transactions, webhook_events, chainLen, sync, test, gt, hist>>

\* --------------------------------------------------------------- Sync task
ClearNotify(s) == [s EXCEPT !.ev = 0, !.url = Null, !.attempt = 0, !.ok = FALSE]

\* sync_all_wallets: the match on sync_wallet's result.
Reported(s, ok) ==
    IF ok THEN [s EXCEPT !.report.wallets_synced = @ + 1]
    ELSE [s EXCEPT !.report.errors = @ + 1]

\* Position after the wallet list has been advanced: the next wallet of
\* sync_all_wallets, or its return of Ok(report) once the list is
\* exhausted.
AfterWallet(s) ==
    IF s.wallets = <<>>
    THEN [s EXCEPT !.wallet = NoWallet, !.txs = <<>>, !.pc = "cycle_done", !.ret = "ok"]
    ELSE [s EXCEPT !.wallet = NoWallet, !.txs = <<>>, !.pc = "wallet_fetch"]

\* Position after the current parsed transaction of sync_wallet is done
\* (continue, or end of the loop body).
AfterTx(s) ==
    LET t == ClearNotify([s EXCEPT !.txs = Tail(s.txs)])
    IN IF t.txs # <<>> THEN [t EXCEPT !.pc = "tx_exists"]
       ELSE AfterWallet(Reported(t, TRUE))

\* The loop body of sync_wallet has ended for the current parsed
\* transaction.
SyncedAfter(s) == synced \cup {<<s.wallet.address, Head(s.txs).signature>>}

\* Position after the current pending event of retry_pending_webhooks is
\* done; after the last one the loop sleeps SYNC_INTERVAL.
AfterPending(s) ==
    LET t == ClearNotify([s EXCEPT !.pending = Tail(s.pending)])
    IN [t EXCEPT !.pc = IF t.pending # <<>> THEN "retry_next" ELSE "sleep"]

\* start_background_sync, top of the loop, and sync_all_wallets up to
\* WalletRepository::list_all.
SyncAllWalletsStart ==
    /\ sync.pc = "sleep"
    /\ ~sync.shutdown
    /\ sync' = AfterWallet([sync EXCEPT !.wallets = ListAll(wallets),
                                        !.report = NoReport])
    /\ UNCHANGED <<side, db, chainLen, test, gt, hist, ops>>

\* sync_wallet: solana_client.sync_wallet_transactions for the next wallet.
\* An RPC error ends sync_wallet for this wallet; the cycle goes on.
SyncWalletFetch ==
    /\ sync.pc = "wallet_fetch"
    /\ LET w == Head(sync.wallets)
           s == [sync EXCEPT !.wallets = Tail(sync.wallets)]
       IN \E r \in RpcResults(w.address) :
            sync' = IF r.ok /\ r.txs # <<>>
                    THEN [s EXCEPT !.wallet = w, !.txs = r.txs, !.pc = "tx_exists"]
                    ELSE AfterWallet(Reported(s, r.ok))
    /\ UNCHANGED <<side, db, chainLen, test, gt, hist, ops>>

\* sync_wallet: TransactionRepository::exists for the current parsed tx.
SyncTxExists ==
    /\ sync.pc = "tx_exists"
    /\ sync' = IF TransactionExists(transactions, Head(sync.txs).signature)
               THEN AfterTx(sync)
               ELSE [sync EXCEPT !.pc = "tx_create"]
    /\ synced' = IF sync'.pc = "tx_create" THEN synced ELSE SyncedAfter(sync)
    /\ UNCHANGED <<side, db, chainLen, test, gt, sent, httpLog, notifyRet, ingested, ops>>

SyncTxCreateNotifyAll ==
    /\ sync.pc = "tx_create"
    /\ LET p == Head(sync.txs)
           c == TransactionCreate(transactions, p)
       IN /\ transactions' = c.table
          /\ sync' = IF c.result = "ok"
                     THEN [sync EXCEPT !.pc = "notify_exists"]
                     ELSE AfterTx(sync)
          /\ ingested' = ingested \cup {p.signature}
    /\ synced' = IF sync'.pc = "notify_exists" THEN synced ELSE SyncedAfter(sync)
    /\ UNCHANGED <<side, wallets, webhook_events, chainLen, test, gt, sent, httpLog, notifyRet, ops>>

\* sync_wallet: TransactionRepository::create and the match on its result.
SyncTxCreate ==
    /\ sync.pc = "tx_create"
    /\ LET p == Head(sync.txs)
           c == TransactionCreate(transactions, p)
       IN /\ transactions' = c.table
          /\ sync' = IF AfterCreate(c.result, p.tx_type) = "notify"
                     THEN [sync EXCEPT !.pc = "notify_exists"]
                     ELSE AfterTx(sync)
          /\ ingested' = ingested \cup {p.signature}
    /\ synced' = IF sync'.pc = "notify_exists" THEN synced ELSE SyncedAfter(sync)
    /\ UNCHANGED <<side, wallets, webhook_events, chainLen, test, gt, sent, httpLog, notifyRet, ops>>

NotifyExistsNullOnly ==
    /\ sync.pc = "notify_exists"
    /\ LET sig == Head(sync.txs).signature
           url == sync.wallet.webhook_url
       IN IF ExistsForTransaction(webhook_events, sig) \/ url = Null
          THEN /\ sync' = AfterTx(sync)
               /\ notifyRet' = [notifyRet EXCEPT ![sig] = "ok"]
               /\ synced' = SyncedAfter(sync)
          ELSE /\ sync' = [sync EXCEPT !.pc = "notify_create", !.url = url]
               /\ UNCHANGED <<notifyRet, synced>>
    /\ UNCHANGED <<side, db, chainLen, test, gt, sent, httpLog, ingested, ops>>

\* notify_payment_received: the exists_for_transaction probe and the check
\* of the wallet's URL (the wallet value read by list_all).
NotifyExists ==
    /\ sync.pc = "notify_exists"
    /\ LET sig == Head(sync.txs).signature
           url == sync.wallet.webhook_url
       IN IF ExistsForTransaction(webhook_events, sig) \/ url = Null \/ url = ""
          THEN /\ sync' = AfterTx(sync)
               /\ notifyRet' = [notifyRet EXCEPT ![sig] = "ok"]
               /\ synced' = SyncedAfter(sync)
          ELSE /\ sync' = [sync EXCEPT !.pc = "notify_create", !.url = url]
               /\ UNCHANGED <<notifyRet, synced>>
    /\ UNCHANGED <<side, db, chainLen, test, gt, sent, httpLog, ingested, ops>>

NotifyCreateNoRow ==
    /\ sync.pc = "notify_create"
    /\ sync' = [sync EXCEPT !.ev = Len(webhook_events) + 1, !.pc = "deliver_send"]
    /\ UNCHANGED <<side, db, chainLen, test, gt, hist, ops>>

\* notify_payment_received: WebhookEventRepository::create, before
\* deliver_webhook is entered.
NotifyCreate ==
    /\ sync.pc = "notify_create"
    /\ webhook_events' = EventCreate(webhook_events, sync.wallet.address,
                                     Head(sync.txs).signature, "payment.received")
    /\ sync' = [sync EXCEPT !.ev = Len(webhook_events) + 1, !.pc = "deliver_send"]
    /\ UNCHANGED <<side, wallets, transactions, chainLen, test, gt, hist, ops>>

\* deliver_webhook: send_webhook of attempt sync.attempt + 1.
DeliverSend ==
    /\ sync.pc = "deliver_send"
    /\ \E ok \in SendResults(sync.url) :
         sync' = [sync EXCEPT !.ok = ok, !.pc = "deliver_record"]
    /\ sent' = sent (+) SetToBag({sync.ev})
    /\ httpLog' = httpLog \cup {Head(sync.txs).signature}
    /\ UNCHANGED <<side, db, chainLen, test, gt, notifyRet, ingested, synced, ops>>

DeliverRecordNoReturn ==
    /\ sync.pc = "deliver_record"
    /\ IF sync.ok
       THEN /\ webhook_events' = MarkDelivered(webhook_events, sync.ev)
            /\ sync' = [sync EXCEPT !.pc = "deliver_sleep"]
       ELSE /\ webhook_events' = IncrementAttempt(webhook_events, sync.ev, ERR_SEND)
            /\ sync' = [sync EXCEPT !.pc = IF sync.attempt + 1 >= MAX_ATTEMPTS
                                           THEN "deliver_fail" ELSE "deliver_sleep"]
    /\ UNCHANGED <<side, wallets, transactions, chainLen, test, gt, hist, ops>>

DeliverRecordSleepsAfterThird ==
    /\ sync.pc = "deliver_record"
    /\ IF sync.ok
       THEN /\ webhook_events' = MarkDelivered(webhook_events, sync.ev)
            /\ notifyRet' = [notifyRet EXCEPT ![Head(sync.txs).signature] = "ok"]
            /\ sync' = AfterTx(sync)
            /\ synced' = SyncedAfter(sync)
       ELSE /\ webhook_events' = IncrementAttempt(webhook_events, sync.ev, ERR_SEND)
            /\ sync' = [sync EXCEPT !.pc = IF sync.attempt + 1 > MAX_ATTEMPTS
                                           THEN "deliver_fail" ELSE "deliver_sleep"]
            /\ UNCHANGED <<notifyRet, synced>>
    /\ UNCHANGED <<side, wallets, transactions, chainLen, test, gt, sent, httpLog, ingested, ops>>

\* deliver_webhook: mark_delivered after a 2xx, increment_attempt after a
\* failure.
DeliverRecord ==
    /\ sync.pc = "deliver_record"
    /\ IF sync.ok
       THEN /\ webhook_events' = MarkDelivered(webhook_events, sync.ev)
            /\ notifyRet' = [notifyRet EXCEPT ![Head(sync.txs).signature] = "ok"]
            /\ sync' = AfterTx(sync)
            /\ synced' = SyncedAfter(sync)
       ELSE /\ webhook_events' = IncrementAttempt(webhook_events, sync.ev, ERR_SEND)
            /\ sync' = [sync EXCEPT !.pc = IF sync.attempt + 1 >= MAX_ATTEMPTS
                                           THEN "deliver_fail" ELSE "deliver_sleep"]
            /\ UNCHANGED <<notifyRet, synced>>
    /\ UNCHANGED <<side, wallets, transactions, chainLen, test, gt, sent, httpLog, ingested, ops>>

\* deliver_webhook: mark_failed once attempt_num >= MAX_ATTEMPTS, and the
\* error returned to sync_wallet.
DeliverMarkFailed ==
    /\ sync.pc = "deliver_fail"
    /\ webhook_events' = MarkFailed(webhook_events, sync.ev, ERR_SEND)
    /\ notifyRet' = [notifyRet EXCEPT ![Head(sync.txs).signature] = "err"]
    /\ sync' = AfterTx(sync)
    /\ synced' = SyncedAfter(sync)
    /\ UNCHANGED <<side, wallets, transactions, chainLen, test, gt, sent, httpLog, ingested, ops>>

DeliverSleepRecreate ==
    /\ sync.pc = "deliver_sleep"
    /\ sync' = [sync EXCEPT !.attempt = @ + 1, !.pc = "notify_create"]
    /\ UNCHANGED <<side, db, chainLen, test, gt, hist, ops>>

\* deliver_webhook: tokio::time::sleep(*delay), then the next iteration.
DeliverSleep ==
    /\ sync.pc = "deliver_sleep"
    /\ sync' = [sync EXCEPT !.attempt = @ + 1, !.pc = "deliver_send"]
    /\ UNCHANGED <<side, db, chainLen, test, gt, hist, ops>>

\* start_background_sync: the match on sync_all_wallets' result (logging
\* only); retry_pending_webhooks is called next, whatever the result.
SyncAllWalletsReturn ==
    /\ sync.pc = "cycle_done"
    /\ sync' = [sync EXCEPT !.pc = "retry_find", !.report = NoReport, !.ret = "none"]
    /\ UNCHANGED <<side, db, chainLen, test, gt, hist, ops>>

\* retry_pending_webhooks: WebhookEventRepository::find_pending(100).
RetryFindPending ==
    /\ sync.pc = "retry_find"
    /\ sync' = LET s == [sync EXCEPT !.pending = FindPending(webhook_events, PENDING_LIMIT)]
               IN [s EXCEPT !.pc = IF s.pending # <<>> THEN "retry_next" ELSE "sleep"]
    /\ UNCHANGED <<side, db, chainLen, test, gt, hist, ops>>

\* wallet.and_then(|w| w.webhook_url) on the row read back for the event.
UrlOf(w) == IF w = {} THEN Null ELSE (CHOOSE x \in w : TRUE).webhook_url

RetryNextNoMaxCheck ==
    /\ sync.pc = "retry_next"
    /\ LET e == Head(sync.pending)
           url == UrlOf(FindByAddress(wallets, e.wallet_address))
       IN /\ UNCHANGED webhook_events
          /\ sync' = [sync EXCEPT !.ev = e.id, !.url = url,
                                  !.pc = IF url = Null THEN "retry_urlgone"
                                         ELSE "retry_send"]
    /\ UNCHANGED <<side, wallets, transactions, chainLen, test, gt, hist, ops>>

\* retry_pending_webhooks, one event: the check of the attempts read by
\* find_pending, then either mark_failed or the lookup of the wallet.
RetryNext ==
    /\ sync.pc = "retry_next"
    /\ LET e == Head(sync.pending)
           url == UrlOf(FindByAddress(wallets, e.wallet_address))
       IN IF e.attempts >= MAX_ATTEMPTS
          THEN /\ webhook_events' = MarkFailed(webhook_events, e.id, ERR_MAX)
               /\ sync' = AfterPending(sync)
          ELSE /\ UNCHANGED webhook_events
               /\ sync' = [sync EXCEPT !.ev = e.id, !.url = url,
                                       !.pc = IF url = Null THEN "retry_urlgone"
                                              ELSE "retry_send"]
    /\ UNCHANGED <<side, wallets, transactions, chainLen, test, gt, hist, ops>>

\* retry_pending_webhooks: mark_failed when the wallet has no URL any more.
RetryUrlGone ==
    /\ sync.pc = "retry_urlgone"
    /\ webhook_events' = MarkFailed(webhook_events, sync.ev, ERR_URL)
    /\ sync' = AfterPending(sync)
    /\ UNCHANGED <<side, wallets, transactions, chainLen, test, gt, hist, ops>>

\* retry_pending_webhooks: the single send_webhook of the stored payload.
RetrySend ==
    /\ sync.pc = "retry_send"
    /\ \E ok \in SendResults(sync.url) :
         sync' = [sync EXCEPT !.ok = ok, !.pc = "retry_record"]
    /\ sent' = sent (+) SetToBag({sync.ev})
    /\ httpLog' = httpLog \cup
                    ({Head(sync.pending).transaction_signature} \ {Null})
    /\ UNCHANGED <<side, db, chainLen, test, gt, notifyRet, ingested, synced, ops>>

\* retry_pending_webhooks: mark_delivered after a 2xx, increment_attempt
\* after a failure and the test of the updated attempts.
RetryRecord ==
    /\ sync.pc = "retry_record"
    /\ IF sync.ok
       THEN /\ webhook_events' = MarkDelivered(webhook_events, sync.ev)
            /\ sync' = AfterPending(sync)
       ELSE /\ webhook_events' = IncrementAttempt(webhook_events, sync.ev, ERR_SEND)
            /\ sync' = IF webhook_events'[sync.ev].attempts >= MAX_ATTEMPTS
                       THEN [sync EXCEPT !.pc = "retry_fail"]
                       ELSE AfterPending(sync)
    /\ UNCHANGED <<side, wallets, transactions, chainLen, test, gt, hist, ops>>

\* retry_pending_webhooks: mark_failed once updated.attempts >= MAX_ATTEMPTS.
RetryMarkFailed ==
    /\ sync.pc = "retry_fail"
    /\ webhook_events' = MarkFailed(webhook_events, sync.ev, ERR_SEND)
    /\ sync' = AfterPending(sync)
    /\ UNCHANGED <<side, wallets, transactions, chainLen, test, gt, hist, ops>>

\* ------------------------------------- store errors seen by the Sync task
\* A failing store call is an external event, counted in ops.
\* sync_all_wallets: WalletRepository::list_all fails and the error is
\* returned with `?`.
SyncAllWalletsListErrorExit ==
    /\ sync.pc = "sleep"
    /\ ops < MaxOps
    /\ ops' = ops + 1
    /\ ~sync.shutdown
    /\ sync' = [sync EXCEPT !.pc = "exited"]
    /\ UNCHANGED <<side, db, chainLen, test, gt, hist>>

SyncAllWalletsListError ==
    /\ sync.pc = "sleep"
    /\ ops < MaxOps
    /\ ops' = ops + 1
    /\ ~sync.shutdown
    /\ sync' = [sync EXCEPT !.pc = "cycle_done", !.ret = "err", !.report = NoReport]
    /\ UNCHANGED <<side, db, chainLen, test, gt, hist>>

SyncWalletStoreErrorAborts ==
    /\ sync.pc \in {"tx_exists", "tx_create"}
    /\ ops < MaxOps
    /\ ops' = ops + 1
    /\ sync' = [ClearNotify(sync) EXCEPT !.wallets = <<>>, !.wallet = NoWallet,
                                        !.txs = <<>>, !.pc = "cycle_done", !.ret = "err"]
    /\ UNCHANGED <<side, db, chainLen, test, gt, hist>>

\* sync_wallet: TransactionRepository::exists or create fails with a store
\* error; sync_wallet returns it and sync_all_wallets pushes it to
\* report.errors.
SyncWalletStoreError ==
    /\ sync.pc \in {"tx_exists", "tx_create"}
    /\ ops < MaxOps
    /\ ops' = ops + 1
    /\ sync' = AfterWallet(Reported(ClearNotify(sync), FALSE))
    /\ UNCHANGED <<side, db, chainLen, test, gt, hist>>

NotifyStoreErrorAborts ==
    /\ sync.pc \in {"notify_exists", "notify_create", "deliver_record", "deliver_fail"}
    /\ ops < MaxOps
    /\ ops' = ops + 1
    /\ notifyRet' = [notifyRet EXCEPT ![Head(sync.txs).signature] = "db_err"]
    /\ sync' = AfterWallet(Reported(ClearNotify(sync), FALSE))
    /\ synced' = SyncedAfter(sync)
    /\ UNCHANGED <<side, db, chainLen, test, gt, sent, httpLog, ingested>>

\* notify_payment_received: exists_for_transaction, create, mark_delivered,
\* increment_attempt or mark_failed fails with a store error, which is
\* returned with `?`; sync_wallet logs it and goes on.
NotifyStoreError ==
    /\ sync.pc \in {"notify_exists", "notify_create", "deliver_record", "deliver_fail"}
    /\ ops < MaxOps
    /\ ops' = ops + 1
    /\ notifyRet' = [notifyRet EXCEPT ![Head(sync.txs).signature] = "db_err"]
    /\ sync' = AfterTx(sync)
    /\ synced' = SyncedAfter(sync)
    /\ UNCHANGED <<side, db, chainLen, test, gt, sent, httpLog, ingested>>

RetryStoreErrorContinues ==
    /\ sync.pc \in {"retry_find", "retry_next", "retry_urlgone", "retry_record", "retry_fail"}
    /\ ops < MaxOps
    /\ ops' = ops + 1
    /\ sync' = IF sync.pc = "retry_find"
               THEN [ClearNotify(sync) EXCEPT !.pending = <<>>, !.pc = "sleep"]
               ELSE AfterPending(sync)
    /\ UNCHANGED <<side, db, chainLen, test, gt, hist>>

\* retry_pending_webhooks: one of its store calls fails; the error is
\* returned with `?` and start_background_sync logs it and sleeps.
RetryStoreError ==
    /\ sync.pc \in {"retry_find", "retry_next", "retry_urlgone", "retry_record", "retry_fail"}
    /\ ops < MaxOps
    /\ ops' = ops + 1
    /\ sync' = [ClearNotify(sync) EXCEPT !.pending = <<>>, !.pc = "sleep"]
    /\ UNCHANGED <<side, db, chainLen, test, gt, hist>>

\* ---------------------------------------------------------------- shutdown
\* start_background_sync: the flag is found set at the top of the loop.
SyncExit ==
    /\ sync.pc = "sleep"
    /\ sync.shutdown
    /\ sync' = [sync EXCEPT !.pc = "exited"]
    /\ UNCHANGED <<side, db, chainLen, test, gt, hist, ops>>

\* shutdown_signal: SIGINT or SIGTERM arrives, sync.shutdown() stores the
\* flag.
ShutdownSignal ==
    /\ ~sync.shutdown
    /\ sync.pc \notin {"exited", "aborted"}
    /\ sync' = [sync EXCEPT !.shutdown = TRUE]
    /\ UNCHANGED <<side, db, chainLen, test, gt, hist, ops>>

\* main: axum::serve has returned and sync_handle.abort() follows at once;
\* the task is cancelled at the await it is suspended on.
AbortSync ==
    /\ sync.shutdown
    /\ sync.pc \notin {"exited", "aborted"}
    /\ sync' = [SyncInit EXCEPT !.shutdown = TRUE, !.pc = "aborted"]
    /\ UNCHANGED <<side, db, chainLen, test, gt, hist, ops>>

\* ------------------------------------------------- POST /webhook/test
\* test_webhook: find_by_address, 404 without a wallet, 400 when
\* webhook_url is None; send_test_webhook takes the URL as it is.
TestStart(addr) ==
    /\ test.pc = "idle"
    /\ ops < MaxOps
    /\ ops' = ops + 1
    /\ LET w == FindByAddress(wallets, addr)
       IN test' = IF w = {}
                  THEN [TestInit EXCEPT !.pc = "respond", !.resp = "404"]
                  ELSE IF (CHOOSE x \in w : TRUE).webhook_url = Null
                  THEN [TestInit EXCEPT !.wallet = CHOOSE x \in w : TRUE,
                                        !.pc = "respond", !.resp = "400"]
                  ELSE [TestInit EXCEPT !.wallet = CHOOSE x \in w : TRUE,
                                        !.pc = "create"]
    /\ UNCHANGED <<side, db, chainLen, sync, gt, hist>>

\* send_test_webhook: WebhookEventRepository::create with no signature.
TestCreate ==
    /\ test.pc = "create"
    /\ webhook_events' = EventCreate(webhook_events, test.wallet.address, Null, "test")
    /\ test' = [test EXCEPT !.ev = Len(webhook_events) + 1, !.pc = "send"]
    /\ UNCHANGED <<side, wallets, transactions, chainLen, sync, gt, hist, ops>>

\* send_test_webhook: the single send_webhook.
TestSend ==
    /\ test.pc = "send"
    /\ \E ok \in SendResults(test.wallet.webhook_url) :
         test' = [test EXCEPT !.ok = ok, !.pc = "record"]
    /\ sent' = sent (+) SetToBag({test.ev})
    /\ UNCHANGED <<side, db, chainLen, sync, gt, httpLog, notifyRet, ingested, synced, ops>>

\* send_test_webhook: mark_delivered or mark_failed; test_webhook turns
\* either result into a 200 body with success true or false.
TestRecord ==
    /\ test.pc = "record"
    /\ webhook_events' = IF test.ok THEN MarkDelivered(webhook_events, test.ev)
                         ELSE MarkFailed(webhook_events, test.ev, ERR_SEND)
    /\ test' = [test EXCEPT !.pc = "respond", !.resp = "200"]
    /\ UNCHANGED <<side, wallets, transactions, chainLen, sync, gt, hist, ops>>

\* test_webhook: the response goes out and the request is over.
TestRespond ==
    /\ test.pc = "respond"
    /\ test' = TestInit
    /\ UNCHANGED <<side, db, chainLen, sync, gt, hist, ops>>

\* ------------------------------------------- GET /wallets/:a/transactions
\* get_transactions: find_by_address, then sync_wallet_transactions.  An
\* RPC error is logged and the stored rows are returned.
GetTransactionsStart(addr) ==
    /\ gt.pc = "idle"
    /\ ops < MaxOps
    /\ ops' = ops + 1
    /\ IF FindByAddress(wallets, addr) = {}
       THEN gt' = GtInit
       ELSE \E r \in RpcResults(addr) :
              gt' = IF r.ok /\ r.txs # <<>>
                    THEN [pc |-> "insert", txs |-> r.txs]
                    ELSE GtInit
    /\ UNCHANGED <<side, db, chainLen, sync, test, hist>>

\* get_transactions: TransactionRepository::create for the next parsed
\* transaction, its result dropped.
GetTransactionsInsert ==
    /\ gt.pc = "insert"
    /\ transactions' = TransactionCreate(transactions, Head(gt.txs)).table
    /\ gt' = IF Tail(gt.txs) = <<>> THEN GtInit
             ELSE [gt EXCEPT !.txs = Tail(gt.txs)]
    /\ ingested' = ingested \cup {Head(gt.txs).signature}
    /\ UNCHANGED <<side, wallets, webhook_events, chainLen, sync, test, sent, httpLog,
                   notifyRet, synced, ops>>

\* ------------------------------------------------------------------- Next
SyncStep ==
    \/ SyncAllWalletsStart
    \/ SyncWalletFetch
    \/ SyncTxExists
    \/ SyncTxCreate
    \/ NotifyExists
    \/ NotifyCreate
    \/ DeliverSend
    \/ DeliverRecord
    \/ DeliverMarkFailed
    \/ DeliverSleep
    \/ SyncAllWalletsReturn
    \/ RetryFindPending
    \/ RetryNext
    \/ RetryUrlGone
    \/ RetrySend
    \/ RetryRecord
    \/ RetryMarkFailed

Next ==
    \/ SyncStep
    \/ ChainAdvance
    \/ Restart
    \/ \E a \in Addrs, u \in Urls : CreateWallet(a, u)
    \/ \E a \in Addrs : DeleteWallet(a)
    \/ \E a \in Addrs : TestStart(a)
    \/ TestCreate
    \/ TestSend
    \/ TestRecord
    \/ TestRespond
    \/ \E a \in Addrs : GetTransactionsStart(a)
    \/ GetTransactionsInsert

Spec == Init /\ [][Next]_vars

\* The Sync task over two registered wallets, with store errors and
\* shutdown: A and B are registered with a URL, in either order.
CycleWalletTables ==
    {<<[address |-> a, webhook_url |-> "https://x"],
       [address |-> b, webhook_url |-> "https://x"]>> :
            a \in AllAddrs, b \in AllAddrs}

CycleInit ==
    /\ wallets \in {w \in CycleWalletTables :
                      \A i, j \in DOMAIN w : w[i].address = w[j].address => i = j}
    /\ transactions = EmptyBag
    /\ webhook_events = <<>>
    /\ chainLen = 0
    /\ sync = SyncInit
    /\ test = TestInit
    /\ gt = GtInit
    /\ sent = EmptyBag
    /\ httpLog = {}
    /\ notifyRet = [s \in Sigs |-> "none"]
    /\ ingested = {}
    /\ synced = {}
    /\ ops = 0
    /\ SideInit

CycleNext ==
    \/ SyncStep
    \/ SyncAllWalletsListError
    \/ SyncWalletStoreError
    \/ NotifyStoreError
    \/ RetryStoreError
    \/ SyncExit
    \/ ShutdownSignal
    \/ AbortSync
    \/ ChainAdvance
    \/ \E a \in AllAddrs : DeleteWallet(a)

CycleSpec == CycleInit /\ [][CycleNext]_vars

\* The process starts on the tables an earlier run has left: B's receive
\* of sigS is stored and its event is pending after one failed send (the
\* run stopped in the loop's sleep), and a test event for A is pending (the
\* run stopped before its send).
RecoveryInit ==
    /\ wallets \in {w \in CycleWalletTables :
                      \A i, j \in DOMAIN w : w[i].address = w[j].address => i = j}
    /\ transactions = TransactionCreate(EmptyBag, Parsed("sigS", "B")).table
    /\ webhook_events =
         EventCreate(IncrementAttempt(EventCreate(<<>>, "B", "sigS", "payment.received"),
                                      1, ERR_SEND),
                     "A", Null, "test")
    /\ chainLen = 1
    /\ sync = SyncInit
    /\ test = TestInit
    /\ gt = GtInit
    /\ sent = SetToBag({1})
    /\ httpLog = {"sigS"}
    /\ notifyRet = [s \in Sigs |-> "none"]
    /\ ingested = {"sigS"}
    /\ synced = {}
    /\ ops = 0
    /\ SideInit

\* The Sync task with store errors and shutdown, started on those tables.
RecoverySpec == RecoveryInit /\ [][CycleNext]_vars

\* The Sync loop runs for as long as the process does: the task is
\* spawned once and every await in it completes.
LiveSpec == Spec /\ WF_vars(SyncStep)

TypeOK ==
    /\ chainLen \in 0..Len(SigOrder)
    /\ \A i \in DOMAIN webhook_events :
         /\ webhook_events[i].id = i
         /\ webhook_events[i].status \in {"pending", "delivered", "failed"}

\* ------------------------------------------------------------ APY task
\* fetch_solana_usdc_rates: an error, or the rates of the target pools
\* (at most MaxRates rows are stored in all).
FetchResults(n) ==
    {[ok |-> FALSE, rates |-> <<>>]}
    \cup {[ok |-> TRUE, rates |-> r] :
            r \in {x \in {<<>>, <<PoolRate("kamino", "USDC", 2)>>,
                          <<PoolRate("kamino", "USDC", 2), PoolRate("save", "USDC", 2)>>} :
                     n + Len(x) <= MaxRates}}

ApyAfterFetchSkipsCleanup(a) ==
    [a EXCEPT !.rates = <<>>,
              !.pc = IF a.initial THEN "first_tick"
                     ELSE IF a.failed THEN "loop" ELSE "cleanup"]

\* Position after fetch_and_store_rates has returned: the first tick of
\* the interval after the initial fetch, the cleanup inside the loop.
ApyAfterFetch(a) ==
    [a EXCEPT !.rates = <<>>, !.pc = IF a.initial THEN "first_tick" ELSE "cleanup"]

\* fetch_and_store_rates: defillama.fetch_solana_usdc_rates().await?
ApyFetch ==
    /\ apy.pc = "fetch"
    /\ \E r \in FetchResults(apy.n) :
         apy' = IF r.ok /\ r.rates # <<>>
                THEN [apy EXCEPT !.rates = r.rates, !.failed = FALSE, !.pc = "insert"]
                ELSE ApyAfterFetch([apy EXCEPT !.failed = ~r.ok])
    /\ UNCHANGED <<ledger, ops, apy_rates, now, fn>>

\* Position after the current rate of fetch_and_store_rates is done.
ApyAfterRate(a) ==
    IF Tail(a.rates) = <<>> THEN ApyAfterFetch(a)
    ELSE [a EXCEPT !.rates = Tail(a.rates)]

\* fetch_and_store_rates: ApyRateRepository::insert of the next rate; the
\* timestamps are the store's (the column defaults are not set by the
\* statement): an instant up to now.
ApyStore ==
    /\ apy.pc = "insert"
    /\ \E t \in 0..now :
         apy_rates' = ApyInsert(apy_rates, apy.n + 1, Head(apy.rates), t)
    /\ apy' = ApyAfterRate([apy EXCEPT !.n = @ + 1])
    /\ UNCHANGED <<ledger, ops, now, fn>>

\* fetch_and_store_rates: the insert fails, the error is logged and the
\* rate skipped.
ApyStoreError ==
    /\ apy.pc = "insert"
    /\ ops < MaxOps
    /\ ops' = ops + 1
    /\ apy' = ApyAfterRate(apy)
    /\ UNCHANGED <<ledger, apy_rates, now, fn>>

\* start_background_fetch: interval.tick() after the initial fetch.
ApyFirstTick ==
    /\ apy.pc = "first_tick"
    /\ apy' = [apy EXCEPT !.initial = FALSE, !.pc = "loop"]
    /\ UNCHANGED <<ledger, ops, apy_rates, now, fn>>

\* start_background_fetch: top of the loop, the test of the shutdown flag.
ApyLoopTop ==
    /\ apy.pc = "loop"
    /\ apy' = [apy EXCEPT !.pc = IF apy.shutdown THEN "exited" ELSE "tick"]
    /\ UNCHANGED <<ledger, ops, apy_rates, now, fn>>

\* start_background_fetch: interval.tick() inside the loop.
ApyTick ==
    /\ apy.pc = "tick"
    /\ apy' = [apy EXCEPT !.pc = "fetch"]
    /\ UNCHANGED <<ledger, ops, apy_rates, now, fn>>

\* start_background_fetch: cleanup_old_rates(Utc::now() - Duration::days(7)).
ApyCleanup ==
    /\ apy.pc = "cleanup"
    /\ apy_rates' = CleanupOldRates(apy_rates, now - RETENTION_DAYS)
    /\ apy' = [apy EXCEPT !.pc = "loop"]
    /\ UNCHANGED <<ledger, ops, now, fn>>

\* start_background_fetch: cleanup_old_rates fails, the error is logged.
ApyCleanupError ==
    /\ apy.pc = "cleanup"
    /\ ops < MaxOps
    /\ ops' = ops + 1
    /\ apy' = [apy EXCEPT !.pc = "loop"]
    /\ UNCHANGED <<ledger, apy_rates, now, fn>>

\* shutdown_signal: apy.shutdown() stores the flag.
ApyShutdownSignal ==
    /\ ~apy.shutdown
    /\ apy.pc \notin {"exited", "aborted"}
    /\ apy' = [apy EXCEPT !.shutdown = TRUE]
    /\ UNCHANGED <<ledger, ops, apy_rates, now, fn>>

\* main: apy_handle.abort() once axum::serve has returned.
ApyAbort ==
    /\ apy.shutdown
    /\ apy.pc \notin {"exited", "aborted"}
    /\ apy' = [apy EXCEPT !.rates = <<>>, !.pc = "aborted"]
    /\ UNCHANGED <<ledger, ops, apy_rates, now, fn>>

\* A day passes.
ClockTick ==
    /\ now < MaxNow
    /\ now' = now + 1
    /\ UNCHANGED <<ledger, ops, apy_rates, apy, fn>>

ApyStep ==
    \/ ApyFetch
    \/ ApyStore
    \/ ApyFirstTick
    \/ ApyLoopTop
    \/ ApyTick
    \/ ApyCleanup

LedgerInit ==
    /\ wallets = <<>>
    /\ transactions = EmptyBag
    /\ webhook_events = <<>>
    /\ chainLen = 0
    /\ sync = SyncInit
    /\ test = TestInit
    /\ gt = GtInit
    /\ sent = EmptyBag
    /\ httpLog = {}
    /\ notifyRet = [s \in Sigs |-> "none"]
    /\ ingested = {}
    /\ synced = {}
    /\ ops = 0

ApySpecInit == LedgerInit /\ SideInit

ApyNext ==
    \/ ApyStep
    \/ ApyStoreError
    \/ ApyCleanupError
    \/ ApyShutdownSignal
    \/ ApyAbort
    \/ ClockTick

\* The APY task alone, with the clock.
ApySpec == ApySpecInit /\ [][ApyNext]_vars

\* The APY task is spawned once and every await in it completes.
ApyLiveSpec == ApySpec /\ WF_vars(ApyStep)

\* ------------------------------------- store and adapter functions applied
\* Rows of the transactions table and parsed transactions.
TxRows ==
    [signature : Sigs, wallet_address : AllAddrs, tx_type : {"send", "receive"},
     block_time : 1..2]

\* TransactionRepository::create on a table with at most one row, and
\* sync_wallet's match on what it returned.
FnTransactionCreate ==
    /\ fn.op = "none"
    /\ \E tb \in {EmptyBag} \cup {SetToBag({r}) : r \in TxRows}, p \in TxRows :
         \E c \in CreateResults(tb, p) :
            fn' = [op |-> "create", txs |-> tb, p |-> p, out |-> c,
                   next |-> AfterCreate(c.result, p.tx_type)]
    /\ UNCHANGED <<ledger, ops, apy_rates, apy, now>>

UrlLists(n) == UNION {[1..k -> Urls] : k \in 1..n}

\* create_wallet for address A, once per URL of a list, on an empty
\* wallets table.
FnRegisterAll ==
    /\ fn.op = "none"
    /\ \E urls \in UrlLists(MaxLen) :
         fn' = [op |-> "register", urls |-> urls, out |-> RegisterAll(<<>>, "A", urls)]
    /\ UNCHANGED <<ledger, ops, apy_rates, apy, now>>

RateInputs ==
    {<<PoolRate(p, k, a), t>> :
        p \in {"kamino", "save"}, k \in {"USDC", "USDT"}, a \in 1..2, t \in 1..2}

RECURSIVE RateTables(_)
\* The apy_rates tables that up to n inserts leave.
RateTables(n) ==
    IF n = 0 THEN {{}}
    ELSE LET prev == RateTables(n - 1)
         IN prev \cup {ApyInsert(tb, Cardinality(tb) + 1, x[1], x[2]) :
                          tb \in prev, x \in RateInputs}

\* ApyService::get_best_rate: get_best_rate(pool, "solana", "USDC").
FnGetBestRate ==
    /\ fn.op = "none"
    /\ \E tb \in RateTables(MaxLen) :
         \E l \in GetLatestRates(tb, "solana", "USDC") :
            fn' = [op |-> "best", rates |-> tb, latest |-> l, out |-> GetBestRate(l)]
    /\ UNCHANGED <<ledger, ops, apy_rates, apy, now>>

\* Values of the limit and offset query parameters.
QueryInts ==
    {None} \cup {Some(v) : v \in {-1, 0, 1, DEFAULT_LIMIT, MAX_LIMIT, MAX_LIMIT + 1}}

FnTransactionsPage ==
    /\ fn.op = "none"
    /\ \E l \in QueryInts, o \in QueryInts :
         fn' = [op |-> "page", endpoint |-> "transactions", limit |-> l, offset |-> o,
                out |-> TransactionsPage(l, o)]
    /\ UNCHANGED <<ledger, ops, apy_rates, apy, now>>

FnWebhookEventsPage ==
    /\ fn.op = "none"
    /\ \E l \in QueryInts, o \in QueryInts :
         fn' = [op |-> "page", endpoint |-> "webhook-events", limit |-> l, offset |-> o,
                out |-> WebhookEventsPage(l, o)]
    /\ UNCHANGED <<ledger, ops, apy_rates, apy, now>>

\* The watched wallet's USDC balance before and after, None when the
\* transaction's metadata has no entry for it.
Balances == {None} \cup {Some(v) : v \in 0..U64_MAX}

FnClassifyBalances ==
    /\ fn.op = "none"
    /\ \E pre \in Balances, post \in Balances :
         fn' = [op |-> "classify", pre |-> pre, post |-> post,
                out |-> ClassifyBalances(pre, post)]
    /\ UNCHANGED <<ledger, ops, apy_rates, apy, now>>

FnNext ==
    \/ FnTransactionCreate
    \/ FnRegisterAll
    \/ FnGetBestRate
    \/ FnTransactionsPage
    \/ FnWebhookEventsPage
    \/ FnClassifyBalances

\* One application of a store or adapter function to inputs drawn from
\* bounded sets.
FnSpec == ApySpecInit /\ [][FnNext]_vars

\* ----------------------------------------------------------------- claims
SigRows(sig) == {r \in BagToSet(transactions) : r.signature = sig}

EventsFor(sig) ==
    {i \in DOMAIN webhook_events : webhook_events[i].transaction_signature = sig}

Payments == {i \in DOMAIN webhook_events : webhook_events[i].event_type = "payment.received"}

Sends(i) == CopiesIn(i, sent)

MaxEvents == Len(SigOrder) + MaxOps

HasStatus(i, set) == i \in DOMAIN webhook_events /\ webhook_events[i].status \in set

\* A step of the Sync task out of the given position (a restart also
\* changes the position, and counts as an external event).
SyncLeaves(pc) == sync.pc = pc /\ sync' # sync /\ ops' = ops

\* C1: whatever interleaving of sync_wallet and the inline sync of
\* get_transactions has handled a signature, the transactions table holds
\* exactly one row with it, and never more than one row with any signature.
C1_OneRowPerSignature ==
    \A sig \in Sigs :
        /\ Cardinality(SigRows(sig)) <= 1
        /\ \A r \in SigRows(sig) : CopiesIn(r, transactions) = 1
        /\ sig \in ingested => SigRows(sig) # {}

\* get_transactions stored sigR between sync_wallet's existence check and
\* its insert of the same signature.
C1_Witness ==
    /\ sync.pc = "tx_create"
    /\ Head(sync.txs).signature = "sigR"
    /\ "sigR" \in ingested
    /\ Cardinality(SigRows("sigR")) = 1

\* C2: in every reachable state there is at most one webhook_events row
\* per transaction signature.
C2_AtMostOneEventPerSignature ==
    \A sig \in Sigs : Cardinality(EventsFor(sig)) <= 1

\* A later sync_wallet pass sees sigR again, after its event was created
\* and the process restarted.
C2_Witness ==
    /\ EventsFor("sigR") # {}
    /\ ops >= 1
    /\ sync.pc = "tx_exists"
    /\ Head(sync.txs).signature = "sigR"
    /\ <<"A", "sigR">> \in synced

\* C3: a webhook event whose status is delivered keeps that status in
\* every later state.
C3_DeliveredIsTerminal ==
    [][\A i \in DOMAIN webhook_events :
          webhook_events[i].status = "delivered"
              => webhook_events'[i].status = "delivered"]_vars

\* C4: every webhook event with status failed has attempts >=
\* MAX_ATTEMPTS, test events and 'URL no longer configured' included.
C4_FailedHasMaxAttempts ==
    \A i \in DOMAIN webhook_events :
        webhook_events[i].status = "failed" => webhook_events[i].attempts >= MAX_ATTEMPTS

\* C4 as amended: every failed event has attempts >= 1, and a failed
\* payment.received event has attempts >= MAX_ATTEMPTS unless it was failed
\* because the wallet's URL is no longer configured.
C4_FailedAttempts ==
    \A i \in DOMAIN webhook_events :
        webhook_events[i].status = "failed" =>
            /\ webhook_events[i].attempts >= 1
            /\ (i \in Payments /\ webhook_events[i].last_error # ERR_URL)
                  => webhook_events[i].attempts >= MAX_ATTEMPTS

\* A payment.received event failed after its sends failed.
C4_Witness ==
    \E i \in Payments :
        /\ webhook_events[i].status = "failed"
        /\ webhook_events[i].last_error = ERR_SEND

\* C5: once notify_payment_received has returned the delivery error, the
\* event of that signature is failed with attempts = 3, a last_error, and
\* exactly 3 sends made.
C5_RetryExhaustion ==
    \A sig \in Sigs :
        notifyRet[sig] = "err" =>
            \E i \in EventsFor(sig) :
                /\ webhook_events[i].status = "failed"
                /\ webhook_events[i].attempts = 3
                /\ webhook_events[i].last_error # Null
                /\ Sends(i) = 3

\* C6: when deliver_webhook records a 2xx answer to its first send, the
\* event becomes delivered with attempts = 1 and the loop is left; and no
\* send is ever made for a payment.received event that is delivered.
C6_FirstSendDelivered ==
    [][/\ (SyncLeaves("deliver_record") /\ sync.attempt = 0 /\ sync.ok) =>
            /\ webhook_events'[sync.ev].status = "delivered"
            /\ webhook_events'[sync.ev].attempts = 1
            /\ sync'.pc \notin {"deliver_send", "deliver_sleep", "deliver_fail"}
       /\ \A i \in Payments :
            webhook_events[i].status = "delivered" => CopiesIn(i, sent') = Sends(i)
      ]_vars

\* notify_payment_received returned Ok for a signature whose event is
\* delivered after one send.
C6_Witness ==
    \E i \in Payments :
        /\ webhook_events[i].status = "delivered"
        /\ webhook_events[i].attempts = 1
        /\ Sends(i) = 1
        /\ notifyRet[webhook_events[i].transaction_signature] = "ok"

\* C7: when retry_pending_webhooks records a 2xx answer for a pending
\* payment.received event with attempts 0 whose only send is the one just
\* made (the process stopped after the row was created and before its
\* first send), the event becomes delivered with attempts = 1 and the call
\* goes on to the next event without another send.
C7_RecoveryAcrossRestart ==
    [][(/\ SyncLeaves("retry_record")
        /\ sync.ok
        /\ sync.ev \in Payments
        /\ webhook_events[sync.ev].status = "pending"
        /\ webhook_events[sync.ev].attempts = 0
        /\ Sends(sync.ev) = 1) =>
            /\ webhook_events'[sync.ev].status = "delivered"
            /\ webhook_events'[sync.ev].attempts = 1
            /\ sent' = sent
            /\ sync'.pc \in {"retry_next", "sleep"}
      ]_vars

\* After a restart, an event that notify_payment_received never returned
\* for is delivered by the retry driver with one send.
C7_Witness ==
    \E i \in Payments :
        /\ webhook_events[i].status = "delivered"
        /\ webhook_events[i].attempts = 1
        /\ Sends(i) = 1
        /\ notifyRet[webhook_events[i].transaction_signature] = "none"
        /\ ops >= 1

\* C8: a payment.received body for signature S is sent only when a
\* webhook_events row for S has been created.
C8_EventBeforeSend ==
    \A sig \in httpLog : EventsFor(sig) # {}

\* A payment.received webhook for sigR has been sent.
C8_Witness == "sigR" \in httpLog

\* C9: while the Sync loop keeps running, every pending webhook event
\* eventually is delivered or failed.
C9_EventualResolution ==
    \A i \in 1..MaxEvents :
        HasStatus(i, {"pending"}) ~> HasStatus(i, {"delivered", "failed"})

\* An event left pending by a restart was failed by the retry driver.
C9_Witness ==
    \E i \in Payments :
        /\ webhook_events[i].status = "failed"
        /\ notifyRet[webhook_events[i].transaction_signature] = "none"
        /\ ops >= 1

\* C10: a transaction that an earlier sync_wallet call for the wallet is
\* done with is skipped at the existence check by every later call: the
\* later call makes no insert, creates no event and makes no send for it.
C10_SyncWalletIdempotent ==
    sync.pc \in {"tx_create", "notify_exists", "notify_create", "deliver_send",
                 "deliver_record", "deliver_fail", "deliver_sleep"}
        => <<sync.wallet.address, Head(sync.txs).signature>> \notin synced

\* A sync_wallet call starts on an RPC result all of whose transactions an
\* earlier call is done with.
C10_Witness ==
    /\ sync.pc = "tx_exists"
    /\ Len(sync.txs) = 2
    /\ \A k \in DOMAIN sync.txs : <<"A", sync.txs[k].signature>> \in synced

\* C11: once a webhook event is delivered or failed, no step sets its
\* status back to pending.
C11_TerminalNeverPending ==
    [][\A i \in DOMAIN webhook_events :
          webhook_events[i].status \in {"delivered", "failed"}
              => webhook_events'[i].status # "pending"]_vars

\* retry_pending_webhooks is about to record the result of its send for an
\* event that the test handler has resolved in the meantime.
C11_Witness ==
    /\ sync.pc = "retry_record"
    /\ ~sync.ok
    /\ HasStatus(sync.ev, {"delivered", "failed"})

\* C12: a webhook event is created with attempts = 0 and no step lowers
\* the attempts of an event.
C12_AttemptsMonotonic ==
    [][/\ \A i \in DOMAIN webhook_events :
            /\ i \in DOMAIN webhook_events'
            /\ webhook_events'[i].attempts >= webhook_events[i].attempts
       /\ \A i \in DOMAIN webhook_events' \ DOMAIN webhook_events :
            webhook_events'[i].attempts = 0
      ]_vars

\* An event delivered on the send that followed two failed ones.
C12_Witness ==
    \E i \in Payments :
        /\ webhook_events[i].status = "delivered"
        /\ webhook_events[i].attempts = 3
        /\ Sends(i) = 3

C14_NoUrlNoEvent ==
    [][(SyncLeaves("notify_exists") /\ sync.wallet.webhook_url \in {Null, ""}) =>
          /\ webhook_events' = webhook_events
          /\ sent' = sent
          /\ httpLog' = httpLog
          /\ notifyRet'[Head(sync.txs).signature] = "ok"
          /\ SigRows(Head(sync.txs).signature) # {}
          /\ transactions' = transactions
          /\ sync'.pc \notin {"notify_create", "deliver_send"}
          /\ EventsFor(Head(sync.txs).signature) = {}
      ]_vars

\* notify_payment_received returned Ok for the receive sigR of a wallet
\* with the empty URL: row stored, no event, nothing sent.
C14_Witness ==
    /\ notifyRet["sigR"] = "ok"
    /\ SigRows("sigR") # {}
    /\ EventsFor("sigR") = {}
    /\ "sigR" \notin httpLog
    /\ \E i \in DOMAIN wallets : wallets[i].webhook_url = ""
    /\ ops = 0

\* C15: the response of POST /wallets/:address/webhook/test for a
\* registered wallet whose webhook_url is null or the empty string is 400.
C15_TestWithoutUrlIs400 ==
    (/\ test.pc = "respond"
     /\ test.wallet.address # Null
     /\ test.wallet.webhook_url \in {Null, ""}) => test.resp = "400"

\* C16: no more than one HTTP send is ever made for a test event: the
\* send of send_test_webhook is the only one, and retry_pending_webhooks
\* never sends it again.
C16_TestEventOneShot ==
    \A i \in DOMAIN webhook_events :
        webhook_events[i].event_type = "test" => Sends(i) <= 1

\* Positions of the Sync task inside sync_wallet, inside
\* retry_pending_webhooks, and ended.
WalletPcs ==
    {"tx_exists", "tx_create", "notify_exists", "notify_create", "deliver_send",
     "deliver_record", "deliver_fail", "deliver_sleep"}

RetryPcs == {"retry_find", "retry_next", "retry_urlgone", "retry_send",
             "retry_record", "retry_fail"}

EndedPcs == {"exited", "aborted"}

\* Wallets of the list read by sync_all_wallets that are reported or
\* still to be synced.
Accounted(s) ==
    s.report.wallets_synced + s.report.errors + Len(s.wallets)
        + (IF s.pc \in WalletPcs THEN 1 ELSE 0)

\* C17: when notify_payment_received returns an error (a store error, or
\* the delivery error after the last attempt), the transactions table is
\* left as it is with the row of the signature in it, and sync_wallet goes
\* on: to the next parsed transaction, or to its Ok return, which
\* sync_all_wallets counts as a synced wallet.
C17_NotifyFailureKeepsRow ==
    [][(/\ sync.pc \in WalletPcs
        /\ notifyRet' # notifyRet
        /\ notifyRet'[Head(sync.txs).signature] \in {"err", "db_err"}) =>
            /\ transactions' = transactions
            /\ \E r \in SigRows(Head(sync.txs).signature) :
                  r.wallet_address = sync.wallet.address /\ r.tx_type = "receive"
            /\ IF Tail(sync.txs) # <<>>
               THEN /\ sync'.pc = "tx_exists"
                    /\ sync'.txs = Tail(sync.txs)
                    /\ sync'.wallet = sync.wallet
                    /\ sync'.report = sync.report
               ELSE /\ sync'.report.wallets_synced = sync.report.wallets_synced + 1
                    /\ sync'.report.errors = sync.report.errors
                    /\ sync'.pc \in {"wallet_fetch", "cycle_done"}
      ]_vars

\* notify_payment_received failed for A's receive sigR and sync_wallet is
\* at the next parsed transaction, sigS, with the row of sigR stored.
C17_Witness ==
    /\ notifyRet["sigR"] \in {"err", "db_err"}
    /\ SigRows("sigR") # {}
    /\ sync.pc = "tx_exists"
    /\ sync.wallet.address = "A"
    /\ Head(sync.txs).signature = "sigS"

\* C18: inside sync_all_wallets every step but the task's abort keeps each
\* wallet of the list accounted for (reported or still to come); a store
\* error inside sync_wallet adds one to report.errors and leaves
\* wallets_synced; and the call ends with Ok(report) and the list
\* exhausted.
C18_WalletErrorIsolated ==
    [][(sync.pc \in WalletPcs \cup {"wallet_fetch"} /\ sync'.pc # "aborted") =>
          /\ Accounted(sync') = Accounted(sync)
          /\ sync'.pc \in WalletPcs \cup {"wallet_fetch", "cycle_done"}
          /\ sync'.pc = "cycle_done" => (sync'.ret = "ok" /\ sync'.wallets = <<>>)
          /\ (sync.pc \in {"tx_exists", "tx_create"} /\ ops' = ops + 1 /\ sync' # sync) =>
                /\ sync'.report.errors = sync.report.errors + 1
                /\ sync'.report.wallets_synced = sync.report.wallets_synced
      ]_vars

\* sync_all_wallets returns Ok with one wallet in error and the other one
\* synced.
C18_Witness ==
    /\ sync.pc = "cycle_done"
    /\ sync.ret = "ok"
    /\ sync.report.errors = 1
    /\ sync.report.wallets_synced = 1

\* C19: the loop is left only from its top with the shutdown flag set;
\* after sync_all_wallets has returned, Ok or Err, retry_pending_webhooks
\* is called; after retry_pending_webhooks, Ok or Err, the loop sleeps;
\* after the sleep sync_all_wallets is called; retry_pending_webhooks is
\* called only after sync_all_wallets.
C19_LoopNeverExits ==
    [][sync'.pc # "aborted" =>
          /\ (sync'.pc = "exited" /\ sync.pc # "exited") =>
                (sync.shutdown /\ sync.pc = "sleep")
          /\ (sync.pc = "cycle_done" /\ sync'.pc # "cycle_done") => sync'.pc = "retry_find"
          /\ (sync.pc \in RetryPcs /\ sync'.pc \notin RetryPcs) => sync'.pc = "sleep"
          /\ (sync.pc = "sleep" /\ sync'.pc \notin {"sleep", "exited"}) =>
                sync'.pc \in {"wallet_fetch", "cycle_done"}
          /\ (sync'.pc = "retry_find" /\ sync.pc # "retry_find") => sync.pc = "cycle_done"
      ]_vars

\* sync_all_wallets has returned an error and the task is on its way to
\* retry_pending_webhooks.
C19_Witness ==
    /\ sync.pc = "cycle_done"
    /\ sync.ret = "err"
    /\ ~sync.shutdown

\* C20: after a shutdown signal the Sync task ends only with its cycle
\* complete, at the top of the loop: the supervisor does not end it while
\* sync_all_wallets or retry_pending_webhooks is in progress.
C20_CycleCompletesBeforeEnd ==
    [][(sync'.pc \in EndedPcs /\ sync.pc \notin EndedPcs) => sync.pc = "sleep"]_vars

\* deliver_webhook: the delay of RETRY_DELAYS paired with the attempt in
\* progress, slept by tokio::time::sleep(*delay).
SleepDelay(s) == RETRY_DELAYS[s.attempt + 1]

\* C28: in the inline delivery loop the task sleeps only after a failed
\* send: 1 s after the first send of the event, 5 s after the second; after
\* the third failed send it is at mark_failed without a sleep, so the 30 s
\* delay is never slept.
C28_InlineRetrySchedule ==
    /\ sync.pc = "deliver_sleep" =>
         /\ ~sync.ok
         /\ Sends(sync.ev) \in {1, 2}
         /\ SleepDelay(sync) = (IF Sends(sync.ev) = 1 THEN 1 ELSE 5)
         /\ SleepDelay(sync) # 30
    /\ sync.pc = "deliver_fail" => ~sync.ok /\ Sends(sync.ev) = MAX_ATTEMPTS

\* The third send of the loop has failed after both sleeps.
C28_Witness ==
    /\ sync.pc = "deliver_fail"
    /\ Sends(sync.ev) = 3
    /\ sync.attempt = 2
    /\ webhook_events[sync.ev].attempts = 3

\* C29: in retry_pending_webhooks a pending event read with attempts
\* already at MAX_ATTEMPTS or above is marked failed without any send, and
\* the pass goes on with the next pending event.
C29_ExhaustedIsFailedWithoutSend ==
    [][(SyncLeaves("retry_next") /\ Head(sync.pending).attempts >= MAX_ATTEMPTS) =>
          /\ sent' = sent
          /\ httpLog' = httpLog
          /\ webhook_events'[Head(sync.pending).id].status = "failed"
          /\ webhook_events'[Head(sync.pending).id].last_error = ERR_MAX
          /\ sync' = AfterPending(sync)]_vars

\* A pending event with three counted attempts was failed by the retry
\* pass, with exactly the three sends of the interrupted inline loop.
C29_Witness ==
    \E i \in DOMAIN webhook_events :
        /\ webhook_events[i].status = "failed"
        /\ webhook_events[i].last_error = ERR_MAX
        /\ webhook_events[i].attempts > MAX_ATTEMPTS
        /\ Sends(i) = MAX_ATTEMPTS

\* C30: in retry_pending_webhooks a pending event (attempts below
\* MAX_ATTEMPTS) whose wallet row is gone, or has a null or empty
\* webhook_url, is marked failed and no send is made for it.
C30_NoUrlIsFailedWithoutSend ==
    [][/\ (/\ SyncLeaves("retry_next")
           /\ Head(sync.pending).attempts < MAX_ATTEMPTS
           /\ UrlOf(FindByAddress(wallets, Head(sync.pending).wallet_address))
                 \in {Null, ""})
          => sync'.pc = "retry_urlgone" /\ sent' = sent
       /\ SyncLeaves("retry_urlgone")
          => /\ sent' = sent
             /\ webhook_events'[sync.ev].status = "failed"]_vars

\* C21: TransactionRepository::create on a signature that is already
\* stored leaves the table as it is, the stored row keeping its
\* wallet_address, tx_type and block_time; what the caller gets is
\* RowNotFound, on which sync_wallet continues with the next transaction
\* without a webhook, while a store error makes it return the error.
C21_ConflictKeepsRow ==
    (fn.op = "create" /\ \E r \in BagToSet(fn.txs) : r.signature = fn.p.signature) =>
        /\ fn.out.table = fn.txs
        /\ fn.out.result \in {"RowNotFound", "db_err"}
        /\ fn.out.result = "RowNotFound" => fn.next = "continue"
        /\ fn.out.result = "db_err" => fn.next = "return_err"

\* A receive is inserted on the signature of a stored row that differs in
\* wallet_address, tx_type and block_time.
C21_Witness ==
    /\ fn.op = "create"
    /\ fn.p.tx_type = "receive"
    /\ fn.out.result = "RowNotFound"
    /\ fn.next = "continue"
    /\ \E r \in BagToSet(fn.txs) :
         /\ r.signature = fn.p.signature
         /\ r.wallet_address # fn.p.wallet_address
         /\ r.tx_type # fn.p.tx_type
         /\ r.block_time # fn.p.block_time
         /\ BagToSet(fn.out.table) = {r}

RECURSIVE LastNonNull(_)
LastNonNull(urls) ==
    IF urls = <<>> THEN Null
    ELSE IF urls[Len(urls)] # Null THEN urls[Len(urls)]
    ELSE LastNonNull(SubSeq(urls, 1, Len(urls) - 1))

\* C22: after any list of POST /wallets calls on one address there is one
\* row for the address, and its webhook_url is the last non-null URL of
\* the list, null when every URL was null.
C22_UpsertKeepsLastNonNullUrl ==
    fn.op = "register" =>
        /\ Len(fn.out) = 1
        /\ fn.out[1].address = "A"
        /\ fn.out[1].webhook_url = LastNonNull(fn.urls)

\* {addr, null}, {addr, "https://x"}, {addr, null} ends with https://x.
C22_Witness ==
    /\ fn.op = "register"
    /\ fn.urls = <<Null, "https://x", Null>>
    /\ fn.out[1].webhook_url = "https://x"

\* C23: the APY loop removes no row whose created_at is within the last
\* RETENTION_DAYS days, and while the loop keeps running (no shutdown) a
\* row whose created_at is more than RETENTION_DAYS days in the past is
\* eventually removed.
C23_OldRatesRemoved ==
    /\ [][\A r \in apy_rates \ apy_rates' : r.created_at < now - RETENTION_DAYS]_vars
    /\ \A id \in 1..MaxRates :
         (\E r \in apy_rates : r.id = id /\ r.created_at < now - RETENTION_DAYS)
            ~> ((~ \E r \in apy_rates : r.id = id) \/ apy.shutdown)

\* A cleanup has removed one row and kept the row that is exactly
\* RETENTION_DAYS days old.
C23_Witness ==
    /\ apy.pc = "loop"
    /\ ~apy.initial
    /\ apy.n = 2
    /\ Cardinality(apy_rates) = 1
    /\ \E r \in apy_rates : r.created_at = now - RETENTION_DAYS

\* C24: when several rows of the latest-per-platform list share the
\* maximum apy_total, get_best_rate returns the one whose platform comes
\* first in platform order.
C24_TieGoesToFirstPlatform ==
    fn.op = "best" =>
        \A b \in fn.out : \A i \in DOMAIN fn.latest :
            fn.latest[i].apy_total = b.apy_total =>
                PlatformRank(b.platform) <= PlatformRank(fn.latest[i].platform)

\* No row of m of the same platform has a greater fetched_at.
IsLatest(m, r) == \A q \in m : q.platform = r.platform => q.fetched_at <= r.fetched_at

\* C25: get_best_rate returns None exactly when no row has the chain and
\* token; otherwise the row returned has the chain and token, is a
\* freshest row of its platform, and its apy_total is at least that of a
\* freshest row of every platform.
C25_BestOfLatestPerPlatform ==
    fn.op = "best" =>
        LET m == {r \in fn.rates : r.chain = "solana" /\ r.token = "USDC"}
        IN /\ fn.out = None <=> m = {}
           /\ \A b \in fn.out :
                /\ b \in m
                /\ IsLatest(m, b)
                /\ \A q \in m : \E r \in m :
                        /\ r.platform = q.platform
                        /\ IsLatest(m, r)
                        /\ r.apy_total <= b.apy_total

\* The row returned has a smaller apy_total than a stale row of the
\* history.
C25_Witness ==
    /\ fn.op = "best"
    /\ \E b \in fn.out : \E q \in fn.rates :
         /\ q.chain = b.chain /\ q.token = b.token
         /\ q.apy_total > b.apy_total
         /\ q.platform # b.platform

\* C26: the limit handed to the store is at most MAX_LIMIT, DEFAULT_LIMIT
\* when the parameter is absent, and a negative offset is handed to the
\* store as 0.
C26_PageClamped ==
    fn.op = "page" =>
        /\ fn.out.limit <= MAX_LIMIT
        /\ fn.limit = None => fn.out.limit = DEFAULT_LIMIT
        /\ fn.out.offset = (IF UnwrapOr(fn.offset, 0) < 0 THEN 0
                            ELSE UnwrapOr(fn.offset, 0))

\* C27: with a missing balance entry counted as 0, a greater post balance
\* gives a receive of post - pre, a greater pre balance a send of
\* pre - post, equal balances nothing; every transfer produced has a
\* positive amount.
C27_ClassifiedByDelta ==
    fn.op = "classify" =>
        LET a == UnwrapOr(fn.pre, 0)
            b == UnwrapOr(fn.post, 0)
        IN /\ b > a => \E e \in fn.out : e.tx_type = "receive"
           /\ a > b => \E e \in fn.out : e.tx_type = "send"
           /\ a = b => fn.out = None
           /\ \A e \in fn.out : e.amount > 0

\* C31: with no process stop between a send and the recording of its
\* result (the process is never restarted here, and an aborted task sends
\* nothing more), at most MAX_ATTEMPTS sends are made for any one
\* payment.received event, the inline loop and every retry pass counted
\* together.
C31_SendsBounded ==
    \A i \in Payments : Sends(i) <= MAX_ATTEMPTS

\* C33: once shutdown has been signalled while the inline loop sleeps
\* between two attempts, the loop does not go on to the next send.
C33_SleepCancelledByShutdown ==
    [][~(/\ sync.pc = "deliver_sleep"
         /\ sync.shutdown
         /\ sync'.pc = "deliver_send")]_vars

\* C34: once the shutdown flag of the APY loop is set, the loop starts no
\* further fetch_and_store_rates, also when the flag was set while the loop
\* was waiting for its timer.
C34_NoCycleAfterShutdown ==
    [][~(/\ apy.shutdown
         /\ apy.pc # "fetch"
         /\ apy'.pc = "fetch")]_vars

\* C36: sigS moves USDC from registered wallet A to registered wallet B;
\* once sync_wallet is done with sigS for B without a store error, the
\* transactions table has B's receive of sigS and a webhook event exists
\* for sigS, in whichever order the wallets were listed.
C36_ReceiverRecordedInAnyOrder ==
    (/\ <<"B", "sigS">> \in synced
     /\ notifyRet["sigS"] # "db_err"
     /\ FindByAddress(wallets, "A") # {}
     /\ FindByAddress(wallets, "B") # {})
        => /\ \E r \in SigRows("sigS") : r.wallet_address = "B" /\ r.tx_type = "receive"
           /\ EventsFor("sigS") # {}

\* C37: a webhook event whose status is failed is never set to delivered.
C37_FailedIsTerminal ==
    [][\A i \in DOMAIN webhook_events :
          webhook_events[i].status = "failed"
              => webhook_events'[i].status # "delivered"]_vars

\* C38: for every delivered or failed webhook event, attempts equals the
\* number of sends made for it.
C38_AttemptsCountSends ==
    \A i \in DOMAIN webhook_events :
        webhook_events[i].status \in {"delivered", "failed"}
            => webhook_events[i].attempts = Sends(i)

\* C35: while the Sync loop keeps running, a receive row stored for sigR
\* while wallet A has a non-empty webhook URL is eventually followed by a
\* webhook event for sigR (or the wallet loses its URL), whether sync_wallet
\* or get_transactions stored the row and whether or not the process
\* restarted in between.
C35_StoredReceiveGetsEvent ==
    (/\ \E r \in SigRows("sigR") : r.tx_type = "receive"
     /\ UrlOf(FindByAddress(wallets, "A")) \notin {Null, ""})
        ~> (\/ EventsFor("sigR") # {}
            \/ UrlOf(FindByAddress(wallets, "A")) \in {Null, ""})

\* C32: the APY task's first fetch is followed by the first tick and no
\* cleanup (no row is removed before the loop is entered); inside the loop
\* every fetch_and_store_rates call is followed by the cleanup, which is
\* the only way a cycle ends, also when the fetch returned an error; the
\* task leaves the loop only with the shutdown flag set.
C32_FetchThenCleanup ==
    [][/\ apy.initial => apy_rates \subseteq apy_rates'
       /\ (apy'.pc = "first_tick" /\ apy.pc # "first_tick")
             => apy.initial /\ apy.pc \in {"fetch", "insert"}
       /\ (apy'.pc = "cleanup" /\ apy.pc # "cleanup")
             => ~apy.initial /\ apy.pc \in {"fetch", "insert"}
       /\ (apy'.pc = "loop" /\ apy.pc # "loop")
             => apy.pc \in {"first_tick", "cleanup"}
       /\ (apy.pc = "fetch" /\ apy'.pc \notin {"fetch", "aborted"} /\ apy'.failed)
             => apy'.pc = (IF apy.initial THEN "first_tick" ELSE "cleanup")
       /\ (apy'.pc = "fetch" /\ apy.pc # "fetch") => apy.pc = "tick"
       /\ (apy'.pc = "exited" /\ apy.pc # "exited") => apy.shutdown /\ apy.pc = "loop"
       /\ apy'.pc = "aborted" => apy.shutdown]_vars

\* Inside the loop the fetch has failed and the cleanup is about to remove
\* an old row.
C32_Witness ==
    /\ apy.pc = "cleanup"
    /\ apy.failed
    /\ ~apy.initial
    /\ \E r \in apy_rates : r.created_at < now - RETENTION_DAYS

\* C39: in retry_pending_webhooks a store error while one pending event of
\* the batch is handled leaves the rest of the batch to be handled in the
\* same call: the pass goes on with the next pending event.
C39_RetryErrorIsolated ==
    [][(/\ sync.pc \in {"retry_next", "retry_urlgone", "retry_record", "retry_fail"}
        /\ Len(sync.pending) >= 2
        /\ ops' = ops + 1
        /\ sync' # sync)
          => /\ sync'.pending = Tail(sync.pending)
             /\ sync'.pc = "retry_next"]_vars

\* C39 as amended: a store error while one pending event is handled ends
\* the retry_pending_webhooks call: the rest of the batch is dropped
\* without a send or an update, and the loop goes to its sleep.
C39_RetryErrorEndsPass ==
    [][(/\ sync.pc \in {"retry_next", "retry_urlgone", "retry_record", "retry_fail"}
        /\ ops' = ops + 1
        /\ sync' # sync)
          => /\ sync'.pending = <<>>
             /\ sync'.pc = "sleep"
             /\ webhook_events' = webhook_events
             /\ sent' = sent]_vars

\* The retry pass has sent event 1 again, the recording of the result has
\* failed, and the pass has ended with event 2 of the batch untouched.
C39_Witness ==
    /\ sync.pc = "sleep"
    /\ sync.pending = <<>>
    /\ ops >= 1
    /\ Sends(1) = 2
    /\ webhook_events[1].attempts = 1
    /\ webhook_events[2].status = "pending"
    /\ webhook_events[2].attempts = 0
    /\ Sends(2) = 0

====
